---- MODULE Spec2Model ----
(***************************************************************************)
(* THD master/worker command channel                                       *)
(* (torch/lib/THD/master_worker/common/CommandChannel.cpp).                *)
(*                                                                         *)
(* One MasterCommandChannel (main thread + error listener thread) and      *)
(* WorldSize-1 WorkerCommandChannel objects, joined by TCP connections.    *)
(* A connection is identified by the worker process that opened it; the    *)
(* master-side descriptor of worker w's connection is the number w, the    *)
(* listening socket is LISTEN_FD and an unset descriptor is -1.            *)
(* Strings and wire data are sequences of bytes (0..255).                  *)
(***************************************************************************)
EXTENDS Integers, Sequences, FiniteSets, TLC

\* ------------------------------------------------------------ configuration
\* world_size as loaded by load_master_env()
WorldSize == 3
\* how many sendMessage calls the master's caller makes
MaxSends == 1
\* how many sendError calls each worker completes
MaxErrors == 1

Ranks == 0..(WorldSize - 1)
WorkerRanks == 1..(WorldSize - 1)
\* worker processes (and the connection each one opens)
Workers == 1..(WorldSize - 1)
\* rank values a worker's environment may hold (WorldSize is out of range)
EnvRanks == 0..WorldSize
\* destination ranks a caller may pass to sendMessage
SendRanks == (-1)..WorldSize

LISTEN_FD == 0
nullptr == <<>>

\* poll(2) event bits
POLLIN == 1
POLLERR == 8
POLLHUP == 16

\* ------------------------------------------------------------ strings
STR_error_rank == <<101, 114, 114, 111, 114, 32, 40, 114, 97, 110, 107, 32>>
STR_sep == <<41, 58, 32>>
STR_closed == <<99, 111, 110, 110, 101, 99, 116, 105, 111, 110, 32, 119, 105, 116, 104, 32, 119, 111, 114, 107, 101, 114, 32, 104, 97, 115, 32, 98, 101, 101, 110, 32, 99, 108, 111, 115, 101, 100>>
STR_poll == <<112, 111, 108, 108, 58, 32>>
STR_recv == <<114, 101, 99, 118, 58, 32>>
STR_failed == <<102, 97, 105, 108, 101, 100, 32, 116, 111, 32, 114, 101, 99, 101, 105, 118, 101, 32, 101, 114, 114, 111, 114, 32, 102, 114, 111, 109, 32, 119, 111, 114, 107, 101, 114>>
\* e.what() of the std::system_error raised by SYSCHECK / recv_bytes
STR_what == <<69, 73, 79>>

\* error texts a worker may report: "oom"
ErrorTexts == { <<111, 111, 109>> }
\* message payloads (rpc::RPCMessage::bytes()) a caller may send
Payloads == { <<>>, <<7>>, <<7, 9>> }

\* std::to_string of a non-negative integer: its decimal digits
RECURSIVE to_string(_)
to_string(n) ==
  IF n < 10 THEN <<48 + n>> ELSE to_string(n \div 10) \o <<48 + (n % 10)>>

\* s occurs in t as a contiguous substring
Contains(t, s) ==
  \E i \in 0..(Len(t) - Len(s)) : SubSeq(t, i + 1, i + Len(s)) = s

\* ------------------------------------------------------------ wire format
\* send_bytes<std::uint64_t>: the 8 bytes of a length, most significant first
RECURSIVE EncodeBytes(_, _)
EncodeBytes(n, k) ==
  IF k = 0 THEN <<>> ELSE EncodeBytes(n \div 256, k - 1) \o <<n % 256>>

Encode64(n) == EncodeBytes(n, 8)

\* recv_bytes<std::uint64_t>: the length the 8 bytes stand for
RECURSIVE Decode64(_)
Decode64(bs) ==
  IF bs = <<>> THEN 0 ELSE 256 * Decode64(SubSeq(bs, 1, Len(bs) - 1)) + bs[Len(bs)]

Take(s, n) == SubSeq(s, 1, n)
Drop(s, n) == SubSeq(s, n + 1, Len(s))

\* bitwise exclusive or of two non-negative integers (the ^ operator)
RECURSIVE Xor(_, _)
Xor(a, b) ==
  IF a = 0 /\ b = 0 THEN 0
  ELSE (((a % 2) + (b % 2)) % 2) + 2 * Xor(a \div 2, b \div 2)

\* bitwise or of two non-negative integers
RECURSIVE BitOr(_, _)
BitOr(a, b) ==
  IF a = 0 /\ b = 0 THEN 0
  ELSE (IF a % 2 = 1 \/ b % 2 = 1 THEN 1 ELSE 0) + 2 * BitOr(a \div 2, b \div 2)

\* ------------------------------------------------------------ state
VARIABLES
  \* MasterCommandChannel members
  _sockets,      \* rank -> descriptor (-1: unset)
  _poll_events,  \* nullptr, or rank -> [fd, revents]
  _exiting,
  _started,
  _error,        \* nullptr, or <<text>>: the ChannelFailureFlag and its message
  \* master main thread
  mpc,           \* where the main thread is
  i,             \* loop index of init()
  call,          \* arguments of the sendMessage call in progress: [msg, rank]
  outcome,       \* how the last sendMessage call ended
  thrown,        \* what() of the runtime_error the last sendMessage threw
  written,       \* number of bytes the current/last sendMessage call wrote
  flagAtCall,    \* was _error set when the current/last sendMessage call began
  invalidAtCall, \* was the destination of the current/last sendMessage call invalid
  seen,          \* the value of _error that sendMessage's check at line 112 read
  nSends,        \* sendMessage calls made so far
  \* error listener thread
  lpc,           \* where the listener thread is
  l_rank,        \* rank whose connection recvError is reading (0 outside the read)
  error_length,  \* recvError's local error_length (0 outside the read)
  error,         \* the tuple recvError returned (<<0, "">> outside the loop body)
  \* WorkerCommandChannel members and locals, per worker process
  _rank,
  _socket,
  wpc,
  received,      \* payloads recvMessage has returned, in order
  w_error,       \* the text sendError is sending
  nErrors,       \* sendError calls the worker has completed
  w_closes,      \* ::close calls the worker has made on its connection
  \* the network
  listening,     \* the listening socket exists and is open
  backlog,       \* connections waiting to be accepted
  toMaster,      \* worker -> bytes in flight to the master
  toWorker,      \* worker -> bytes in flight to the worker
  peerClosed,    \* workers whose end of the connection is closed
  closeCount,    \* descriptor -> number of ::close calls the master made on it
  \* history
  accepted,      \* connections in the order init() accepted them
  hungUp,        \* ranks recvError has reported as disconnected
  sent           \* worker connection -> the [msg, rank] calls whose frame sendMessage put on it

masterVars == <<_sockets, _poll_events, _exiting, _started, _error>>
mainVars == <<mpc, i, call, outcome, thrown, written, flagAtCall, invalidAtCall, seen, nSends>>
listenerVars == <<lpc, l_rank, error_length, error>>
workerVars == <<_rank, _socket, wpc, received, w_error, nErrors, w_closes>>
netVars == <<listening, backlog, toMaster, toWorker, peerClosed, closeCount>>
histVars == <<accepted, hungUp, sent>>
vars == <<masterVars, mainVars, listenerVars, workerVars, netVars, histVars>>

Descriptors == {LISTEN_FD} \cup Workers

\* MasterCommandChannel() and WorkerCommandChannel(): the state after construction
Init ==
  /\ _sockets = [r \in Ranks |-> -1]
  /\ _poll_events = nullptr
  /\ _exiting = FALSE
  /\ _started = FALSE
  /\ _error = nullptr
  /\ mpc = "constructed"
  /\ i = 0
  /\ call = [msg |-> <<>>, rank |-> 0]
  /\ outcome = "none"
  /\ thrown = <<>>
  /\ written = 0
  /\ flagAtCall = FALSE
  /\ invalidAtCall = FALSE
  /\ seen = nullptr
  /\ nSends = 0
  /\ lpc = "not_started"
  /\ l_rank = 0
  /\ error_length = 0
  /\ error = <<0, <<>>>>
  /\ _rank \in [Workers -> EnvRanks]
  /\ _socket = [w \in Workers |-> -1]
  /\ wpc = [w \in Workers |-> "constructed"]
  /\ received = [w \in Workers |-> <<>>]
  /\ w_error = [w \in Workers |-> <<>>]
  /\ nErrors = [w \in Workers |-> 0]
  /\ w_closes = [w \in Workers |-> 0]
  /\ listening = FALSE
  /\ backlog = <<>>
  /\ toMaster = [w \in Workers |-> <<>>]
  /\ toWorker = [w \in Workers |-> <<>>]
  /\ peerClosed = {}
  /\ closeCount = [d \in Descriptors |-> 0]
  /\ accepted = <<>>
  /\ hungUp = {}
  /\ sent = [w \in Workers |-> <<>>]

\* ------------------------------------------------------------ the network
\* ::close(fd) by the master
Close(cc, fd) == IF fd \in Descriptors THEN [cc EXCEPT ![fd] = @ + 1] ELSE cc

\* the master's end of worker w's connection is closed
MasterClosed(w) == closeCount[w] > 0

\* ------------------------------------------------------------ MasterCommandChannel::init
\* line 70: listen(_port)
MasterListen ==
  /\ mpc = "constructed"
  /\ _sockets' = [_sockets EXCEPT ![0] = LISTEN_FD]
  /\ listening' = TRUE
  /\ i' = 1
  /\ mpc' = "accept"
  /\ UNCHANGED <<_poll_events, _exiting, _started, _error>>
  /\ UNCHANGED <<call, outcome, thrown, written, flagAtCall, invalidAtCall, seen, nSends>>
  /\ UNCHANGED <<backlog, toMaster, toWorker, peerClosed, closeCount>>
  /\ UNCHANGED <<listenerVars, workerVars, histVars>>

\* the accept loop stopping one connection short
AcceptMoreShort(k) == k < WorldSize - 1

\* line 74: the accept loop's condition
AcceptMore(k) == k < WorldSize

\* the connection stored at its arrival index instead of its rank
SlotOfArrival(k, rank) == k

\* line 77: the slot a connection announcing `rank` as the k-th arrival is stored at
SlotOf(k, rank) == rank

\* lines 74-78: one iteration of the accept loop: accept a connection, read the
\* rank it announces, store it at that rank's slot.  std::vector::at throws
\* for a rank outside the table; accept fails when slot 0 no longer holds the
\* listening socket.
MasterAccept ==
  /\ mpc = "accept"
  /\ AcceptMore(i)
  /\ IF _sockets[0] # LISTEN_FD
     THEN /\ mpc' = "init_failed"
          /\ UNCHANGED <<_sockets, i, backlog, toMaster, accepted>>
     ELSE /\ backlog # <<>>
          /\ LET socket == Head(backlog)
                 rank == Head(toMaster[socket])
             IN /\ toMaster[socket] # <<>>
                /\ backlog' = Tail(backlog)
                /\ toMaster' = [toMaster EXCEPT ![socket] = Tail(@)]
                /\ accepted' = Append(accepted, socket)
                /\ IF SlotOf(i, rank) \in Ranks
                   THEN /\ _sockets' = [_sockets EXCEPT ![SlotOf(i, rank)] = socket]
                        /\ i' = i + 1
                        /\ mpc' = "accept"
                   ELSE /\ mpc' = "init_failed"
                        /\ UNCHANGED <<_sockets, i>>
  /\ UNCHANGED <<_poll_events, _exiting, _started, _error>>
  /\ UNCHANGED <<call, outcome, thrown, written, flagAtCall, invalidAtCall, seen, nSends>>
  /\ UNCHANGED <<listening, toWorker, peerClosed, closeCount>>
  /\ UNCHANGED <<hungUp, sent>>
  /\ UNCHANGED <<listenerVars, workerVars>>

\* lines 74, 83: the accept loop is over, the confirmation loop begins
MasterAcceptDone ==
  /\ mpc = "accept"
  /\ ~AcceptMore(i)
  /\ mpc' = "confirm"
  /\ i' = 1
  /\ UNCHANGED <<call, outcome, thrown, written, flagAtCall, invalidAtCall, seen, nSends>>
  /\ UNCHANGED <<masterVars, listenerVars, workerVars, netVars, histVars>>

\* the write to an unset descriptor passing unnoticed
ConnectedAlways(fd) == TRUE

\* line 85: send_bytes succeeds on the descriptor of an accepted connection
Connected(fd) == fd \in Workers

\* lines 83-86: one iteration of the confirmation loop.  send_bytes on an
\* unset descriptor fails and init() throws.
MasterConfirm ==
  /\ mpc = "confirm"
  /\ i < WorldSize
  /\ IF Connected(_sockets[i])
     THEN /\ toWorker' = [toWorker EXCEPT ![_sockets[i]] = Append(@, 1)]
          /\ i' = i + 1
          /\ mpc' = "confirm"
     ELSE /\ mpc' = "init_failed"
          /\ UNCHANGED <<toWorker, i>>
  /\ UNCHANGED <<call, outcome, thrown, written, flagAtCall, invalidAtCall, seen, nSends>>
  /\ UNCHANGED <<listening, backlog, toMaster, peerClosed, closeCount>>
  /\ UNCHANGED <<masterVars, listenerVars, workerVars, histVars>>

\* the closed descriptor left in its slot
ClosedSlotKept(socket) == socket

\* line 90: what slot 0 holds once the listening socket is closed
ClosedSlot(socket) == -1

\* lines 88-94: close the listening socket, start the listener thread, return
MasterStart ==
  /\ mpc = "confirm"
  /\ ~(i < WorldSize)
  /\ closeCount' = Close(closeCount, _sockets[0])
  /\ listening' = (listening /\ _sockets[0] # LISTEN_FD)
  /\ _sockets' = [_sockets EXCEPT ![0] = ClosedSlot(@)]
  /\ _started' = TRUE
  /\ lpc' = "recvError"
  /\ mpc' = "running"
  /\ UNCHANGED <<_poll_events, _exiting, _error>>
  /\ UNCHANGED <<i, call, outcome, thrown, written, flagAtCall, invalidAtCall, seen, nSends>>
  /\ UNCHANGED <<l_rank, error_length, error>>
  /\ UNCHANGED <<backlog, toMaster, toWorker, peerClosed>>
  /\ UNCHANGED <<workerVars, histVars>>

\* ------------------------------------------------------------ WorkerCommandChannel::init
\* lines 192-193: connect to the master and send the rank (a raw value, no
\* frame).  The worker processes are numbered in the order they leave the
\* constructed state; which of them announces which rank is free (Init).
WorkerConnect(w) ==
  /\ wpc[w] = "constructed"
  /\ \A v \in Workers : v < w => wpc[v] # "constructed"
  /\ listening
  /\ _socket' = [_socket EXCEPT ![w] = w]
  /\ backlog' = Append(backlog, w)
  /\ toMaster' = [toMaster EXCEPT ![w] = Append(@, _rank[w])]
  /\ wpc' = [wpc EXCEPT ![w] = "confirm"]
  /\ UNCHANGED <<_rank, received, w_error, nErrors, w_closes>>
  /\ UNCHANGED <<listening, toWorker, peerClosed, closeCount>>
  /\ UNCHANGED <<masterVars, mainVars, listenerVars, histVars>>

\* lines 195-197: block until the confirmation byte arrives, then return
WorkerConfirmed(w) ==
  /\ wpc[w] = "confirm"
  /\ toWorker[w] # <<>>
  /\ toWorker' = [toWorker EXCEPT ![w] = Tail(@)]
  /\ wpc' = [wpc EXCEPT ![w] = "ready"]
  /\ UNCHANGED <<_rank, _socket, received, w_error, nErrors, w_closes>>
  /\ UNCHANGED <<listening, backlog, toMaster, peerClosed, closeCount>>
  /\ UNCHANGED <<masterVars, mainVars, listenerVars, histVars>>

\* ------------------------------------------------------------ WorkerCommandChannel operations
\* lines 205-206: sendError writes the 8-byte length of the text
WorkerSendErrorLength(w, text) ==
  /\ wpc[w] = "ready"
  /\ nErrors[w] < MaxErrors
  /\ ~MasterClosed(w)
  /\ toMaster' = [toMaster EXCEPT ![w] = @ \o Encode64(Len(text))]
  /\ w_error' = [w_error EXCEPT ![w] = text]
  /\ wpc' = [wpc EXCEPT ![w] = "send_payload"]
  /\ UNCHANGED <<_rank, _socket, received, nErrors, w_closes>>
  /\ UNCHANGED <<listening, backlog, toWorker, peerClosed, closeCount>>
  /\ UNCHANGED <<masterVars, mainVars, listenerVars, histVars>>

\* line 207: sendError writes the bytes of the text
WorkerSendErrorPayload(w) ==
  /\ wpc[w] = "send_payload"
  /\ ~MasterClosed(w)
  /\ toMaster' = [toMaster EXCEPT ![w] = @ \o w_error[w]]
  /\ nErrors' = [nErrors EXCEPT ![w] = @ + 1]
  /\ wpc' = [wpc EXCEPT ![w] = "ready"]
  /\ UNCHANGED <<_rank, _socket, received, w_error, w_closes>>
  /\ UNCHANGED <<listening, backlog, toWorker, peerClosed, closeCount>>
  /\ UNCHANGED <<masterVars, mainVars, listenerVars, histVars>>

\* lines 31-32: the length receiveMessage reads from the head of a stream
ReadLength(stream) == Decode64(Take(stream, 8))

\* lines 34-39: the message receiveMessage returns from a stream
ReadMessage(stream) == Take(Drop(stream, 8), ReadLength(stream))

\* lines 200-202, 30-40: recvMessage reads the 8-byte length, then that many
\* bytes, and returns them; it blocks until they have all arrived
WorkerRecvMessage(w) ==
  /\ wpc[w] = "ready"
  /\ Len(toWorker[w]) >= 8
  /\ Len(toWorker[w]) >= 8 + ReadLength(toWorker[w])
  /\ received' = [received EXCEPT ![w] = Append(@, ReadMessage(toWorker[w]))]
  /\ toWorker' = [toWorker EXCEPT ![w] = Drop(@, 8 + ReadLength(toWorker[w]))]
  /\ UNCHANGED <<_rank, _socket, wpc, w_error, nErrors, w_closes>>
  /\ UNCHANGED <<listening, backlog, toMaster, peerClosed, closeCount>>
  /\ UNCHANGED <<masterVars, mainVars, listenerVars, histVars>>

\* the connection closed whether or not init() opened it
OpenedAlways(socket) == TRUE

\* line 187: the connection handle is set
Opened(socket) == socket # -1

\* lines 186-189: ~WorkerCommandChannel closes the connection if init() opened
\* it.  The worker's control flow ends between operations, without init()
\* ever having been called, or by leaving sendError after the length.
WorkerDestroy(w) ==
  /\ wpc[w] \in {"constructed", "ready", "send_payload"}
  /\ wpc[w] = "constructed" => \A v \in Workers : v < w => wpc[v] # "constructed"
  /\ peerClosed' = IF Opened(_socket[w]) THEN peerClosed \cup {w} ELSE peerClosed
  /\ w_closes' = IF Opened(_socket[w]) THEN [w_closes EXCEPT ![w] = @ + 1] ELSE w_closes
  /\ wpc' = [wpc EXCEPT ![w] = "destroyed"]
  /\ UNCHANGED <<_rank, _socket, received, w_error, nErrors>>
  /\ UNCHANGED <<listening, backlog, toMaster, toWorker, closeCount>>
  /\ UNCHANGED <<masterVars, mainVars, listenerVars, histVars>>

\* ------------------------------------------------------------ MasterCommandChannel::recvError
\* lines 124-137: the poll descriptor array, built on the first call and
\* reused, with the events of the last call cleared
PollEvents ==
  IF _poll_events = nullptr
  THEN [rank \in Ranks |-> [fd |-> _sockets[rank], revents |-> 0]]
  ELSE [rank \in Ranks |-> [fd |-> _poll_events[rank].fd, revents |-> 0]]

\* lines 124-137: recvError is entered: the descriptor array is ready to poll
ListenerEnter ==
  /\ lpc = "recvError"
  /\ _poll_events' = PollEvents
  /\ lpc' = "poll"
  /\ UNCHANGED <<_sockets, _exiting, _started, _error>>
  /\ UNCHANGED <<l_rank, error_length, error>>
  /\ UNCHANGED <<mainVars, workerVars, netVars, histVars>>

\* ::poll: the events the kernel reports for descriptor fd (none for a
\* negative one): readable data, and a hang-up once the peer closed its end
Revents(fd) ==
  IF fd \notin Workers THEN 0
  ELSE BitOr(IF toMaster[fd] # <<>> THEN POLLIN ELSE 0,
             IF fd \in peerClosed THEN POLLHUP ELSE 0)

\* line 142: the array as ::poll leaves it
Polled == [rank \in Ranks |-> [fd |-> _poll_events[rank].fd, revents |-> Revents(_poll_events[rank].fd)]]

\* line 142: ::poll's return value, the number of descriptors with events
PollRet == Cardinality({rank \in Ranks : Revents(_poll_events[rank].fd) # 0})

\* only an error condition taken for a closed connection
HangUpOnError(revents) == revents = POLLERR

\* line 156: the connection reported something other than plain readability
HangUp(revents) == Xor(revents, POLLIN) # 0

\* the descriptor left in the array
MarkNothing(pe, rank) == pe

\* line 157: the descriptor of a connection reported as closed is ignored from now on
MarkIgnored(pe, rank) == [pe EXCEPT ![rank].fd = -1]

\* lines 142, 148-150: ::poll fails, SYSCHECK throws, recvError returns the failure
ListenerPollFail ==
  /\ lpc = "poll"
  /\ UNCHANGED _poll_events
  /\ error' = <<0, STR_poll \o STR_what>>
  /\ lpc' = "errorHandler"
  /\ UNCHANGED <<_sockets, _exiting, _started, _error>>
  /\ UNCHANGED <<l_rank, error_length>>
  /\ UNCHANGED <<mainVars, workerVars, netVars, histVars>>

\* the exit signal never noticed inside the wait loop
ExitUnseen(exiting) == FALSE

\* line 144: the wait loop's check of the exit signal after each ::poll
ExitSeen(exiting) == exiting

\* the wait loop left after one ::poll whatever it returned
WaitOnce(ret) == FALSE

\* line 141: the wait loop's condition
WaitAgain(ret) == ret = 0

\* lines 141-147, 152-175: the bounded wait ends with nothing ready; recvError
\* returns if the channel is exiting and waits again otherwise (any number of
\* times); were the loop left, the scan would find no rank and line 175 return
ListenerPollTimeout ==
  /\ lpc = "poll"
  /\ PollRet = 0
  /\ UNCHANGED _poll_events
  /\ IF ExitSeen(_exiting)
     THEN /\ error' = <<0, <<>>>>
          /\ lpc' = "errorHandler"
     ELSE IF WaitAgain(PollRet)
          THEN UNCHANGED <<error, lpc>>
          ELSE /\ error' = <<0, STR_failed>>
               /\ lpc' = "errorHandler"
  /\ UNCHANGED <<_sockets, _exiting, _started, _error>>
  /\ UNCHANGED <<l_rank, error_length>>
  /\ UNCHANGED <<mainVars, workerVars, netVars, histVars>>

\* lines 152-154: the ranks whose connection ::poll reported events for
Ready == {rank \in Ranks : Polled[rank].revents # 0}

\* the scan serving the last rank with events
LastOf(ranks) == CHOOSE r \in ranks : \A q \in ranks : r >= q

\* lines 152-154: the scan runs from rank 0 upwards and serves the first rank
\* with events
FirstOf(ranks) == CHOOSE r \in ranks : \A q \in ranks : r <= q

\* lines 142-175: ::poll reports events.  recvError returns if the channel is
\* exiting; otherwise it serves the lowest rank with events: a hang-up is
\* reported and its descriptor ignored from now on, a readable connection has
\* the length of its error frame read (recv_bytes throws when the stream
\* ends before the 8 bytes).  With no rank to serve it returns the failure
\* of line 175.
ListenerPollReady ==
  /\ lpc = "poll"
  /\ PollRet > 0
  /\ IF ExitSeen(_exiting)
     THEN /\ _poll_events' = Polled
          /\ error' = <<0, <<>>>>
          /\ lpc' = "errorHandler"
          /\ UNCHANGED <<l_rank, error_length, toMaster, hungUp>>
     ELSE IF Ready = {}
     THEN /\ _poll_events' = Polled
          /\ error' = <<0, STR_failed>>
          /\ lpc' = "errorHandler"
          /\ UNCHANGED <<l_rank, error_length, toMaster, hungUp>>
     ELSE LET rank == FirstOf(Ready)
              fd == Polled[rank].fd
          IN IF HangUp(Polled[rank].revents)
             THEN /\ _poll_events' = MarkIgnored(Polled, rank)
                  /\ error' = <<rank, STR_closed>>
                  /\ hungUp' = hungUp \cup {rank}
                  /\ lpc' = "errorHandler"
                  /\ UNCHANGED <<l_rank, error_length, toMaster>>
             ELSE IF Len(toMaster[fd]) >= 8
                  THEN /\ _poll_events' = Polled
                       /\ l_rank' = rank
                       /\ error_length' = Decode64(Take(toMaster[fd], 8))
                       /\ toMaster' = [toMaster EXCEPT ![fd] = Drop(@, 8)]
                       /\ lpc' = "recv_error"
                       /\ UNCHANGED <<error, hungUp>>
                  ELSE /\ _poll_events' = Polled
                       /\ error' = <<rank, STR_recv \o STR_what>>
                       /\ toMaster' = [toMaster EXCEPT ![fd] = <<>>]
                       /\ lpc' = "errorHandler"
                       /\ UNCHANGED <<l_rank, error_length, hungUp>>
  /\ UNCHANGED <<_sockets, _exiting, _started, _error>>
  /\ UNCHANGED <<listening, backlog, toWorker, peerClosed, closeCount>>
  /\ UNCHANGED <<accepted, sent>>
  /\ UNCHANGED <<mainVars, workerVars>>

\* lines 166-171: read error_length bytes of text and return them; recv_bytes
\* throws when the peer closed before they all arrived
ListenerRecvError ==
  /\ lpc = "recv_error"
  /\ LET fd == _poll_events[l_rank].fd
     IN IF Len(toMaster[fd]) >= error_length
        THEN /\ error' = <<l_rank, Take(toMaster[fd], error_length)>>
             /\ toMaster' = [toMaster EXCEPT ![fd] = Drop(@, error_length)]
        ELSE /\ fd \in peerClosed
             /\ error' = <<l_rank, STR_recv \o STR_what>>
             /\ toMaster' = [toMaster EXCEPT ![fd] = <<>>]
  /\ l_rank' = 0
  /\ error_length' = 0
  /\ lpc' = "errorHandler"
  /\ UNCHANGED <<listening, backlog, toWorker, peerClosed, closeCount>>
  /\ UNCHANGED <<masterVars, mainVars, workerVars, histVars>>

\* ------------------------------------------------------------ MasterCommandChannel::errorHandler
\* the rank left out of the message
ErrorMessageTextOnly(err) == STR_error_rank \o STR_sep \o err[2]

\* line 105: the failure message of an error report
ErrorMessage(err) == STR_error_rank \o to_string(err[1]) \o STR_sep \o err[2]

\* a report that carries rank 0 clearing the message
ResetErrorClearing(err) == IF err[1] = 0 THEN nullptr ELSE <<ErrorMessage(err)>>

\* line 104: what _error.reset(new std::string(...)) leaves in _error
ResetError(err) == <<ErrorMessage(err)>>

\* the exit signal missed after recvError returned
ExitMissed(exiting) == FALSE

\* line 100: errorHandler's check of the exit signal
ExitObserved(exiting) == exiting

\* lines 99-107: after recvError returned: leave if the channel is exiting,
\* else record the report and call recvError again
ListenerHandle ==
  /\ lpc = "errorHandler"
  /\ IF ExitObserved(_exiting)
     THEN /\ lpc' = "done"
          /\ UNCHANGED _error
     ELSE /\ _error' = ResetError(error)
          /\ lpc' = "recvError"
  /\ error' = <<0, <<>>>>
  /\ UNCHANGED <<_sockets, _poll_events, _exiting, _started>>
  /\ UNCHANGED <<l_rank, error_length>>
  /\ UNCHANGED <<mainVars, workerVars, netVars, histVars>>

\* ------------------------------------------------------------ MasterCommandChannel::sendMessage
\* the failure check left out
ErrorSetIgnored(e) == FALSE

\* line 112: the channel has failed
ErrorSet(e) == e # nullptr

\* the rank check letting the master's own rank through
InvalidRankButZero(rank) == (rank < 0) \/ (rank >= WorldSize)

\* line 116: the destination is not a worker's rank
InvalidRank(rank) == (rank <= 0) \/ (rank >= WorldSize)

\* lines 20-22: the length the frame of a message announces
FrameLength(bytes) == Len(bytes)

\* the frame written bytes first, length last
FrameSwapped(bytes) == bytes \o Encode64(FrameLength(bytes))

\* lines 18-28: the frame of a message: its 8-byte length, then its bytes
Frame(bytes) == Encode64(FrameLength(bytes)) \o bytes

\* lines 110-118: a caller calls sendMessage(msg, rank); the failure check
\* and the rank check
SendCall(msg, rank) ==
  /\ mpc = "running"
  /\ nSends < MaxSends
  /\ nSends' = nSends + 1
  /\ flagAtCall' = (_error # nullptr)
  /\ invalidAtCall' = (rank \notin WorkerRanks)
  /\ written' = 0
  /\ thrown' = <<>>
  /\ IF ErrorSet(_error)
     THEN /\ mpc' = "throw_error"
          /\ outcome' = "none"
          /\ seen' = _error
          /\ call' = [msg |-> msg, rank |-> rank]
     ELSE IF InvalidRank(rank)
          THEN /\ mpc' = "running"
               /\ outcome' = "domain_error"
               /\ UNCHANGED <<seen, call>>
          ELSE /\ mpc' = "send"
               /\ outcome' = "none"
               /\ call' = [msg |-> msg, rank |-> rank]
               /\ UNCHANGED seen
  /\ UNCHANGED i
  /\ UNCHANGED <<masterVars, listenerVars, workerVars, netVars, histVars>>

\* line 113: throw std::runtime_error(*_error).  _error is neither atomic nor
\* locked: when the listener replaced the string after the check at line 112,
\* the throw copies the new string (the pointer is loaded again) or reads the
\* string the listener deleted (the pointer loaded by the check is used).
SendThrow ==
  /\ mpc = "throw_error"
  /\ IF seen = _error
     THEN /\ outcome' = "runtime_error"
          /\ thrown' = _error[1]
     ELSE \E reload \in BOOLEAN :
            IF reload
            THEN /\ outcome' = "runtime_error"
                 /\ thrown' = _error[1]
            ELSE /\ outcome' = "use_after_free"
                 /\ thrown' = <<>>
  /\ mpc' = "running"
  /\ seen' = nullptr
  /\ call' = [msg |-> <<>>, rank |-> 0]
  /\ UNCHANGED <<i, written, flagAtCall, invalidAtCall, nSends>>
  /\ UNCHANGED <<masterVars, listenerVars, workerVars, netVars, histVars>>

\* lines 120, 18-28: write the frame of the message to the connection of the
\* destination rank; the write fails when the worker closed its end
SendFrame ==
  /\ mpc = "send"
  /\ LET socket == _sockets[call.rank]
     IN IF socket \in Workers /\ socket \notin peerClosed
        THEN /\ toWorker' = [toWorker EXCEPT ![socket] = @ \o Frame(call.msg)]
             /\ written' = written + Len(Frame(call.msg))
             /\ sent' = [sent EXCEPT ![socket] = Append(@, call)]
             /\ outcome' = "sent"
        ELSE /\ outcome' = "system_error"
             /\ UNCHANGED <<toWorker, written, sent>>
  /\ mpc' = "running"
  /\ call' = [msg |-> <<>>, rank |-> 0]
  /\ UNCHANGED <<i, thrown, flagAtCall, invalidAtCall, seen, nSends>>
  /\ UNCHANGED <<listening, backlog, toMaster, peerClosed, closeCount>>
  /\ UNCHANGED <<accepted, hungUp>>
  /\ UNCHANGED <<masterVars, listenerVars, workerVars>>

\* ------------------------------------------------------------ ~MasterCommandChannel
\* line 58: set the exit signal
MasterDestroy ==
  /\ mpc \in {"constructed", "init_failed", "running"}
  /\ _exiting' = TRUE
  /\ mpc' = "join"
  /\ UNCHANGED <<_sockets, _poll_events, _started, _error>>
  /\ UNCHANGED <<i, call, outcome, thrown, written, flagAtCall, invalidAtCall, seen, nSends>>
  /\ UNCHANGED <<listenerVars, workerVars, netVars, histVars>>

\* lines 60-66: join the listener thread if init() started it (the join
\* returns once the thread has returned), then close every descriptor the
\* table holds
MasterJoinClose ==
  /\ mpc = "join"
  /\ _started => lpc = "done"
  /\ closeCount' = [d \in Descriptors |->
                      closeCount[d] + Cardinality({rank \in Ranks : _sockets[rank] = d})]
  /\ listening' = (listening /\ \A rank \in Ranks : _sockets[rank] # LISTEN_FD)
  /\ mpc' = "destroyed"
  /\ UNCHANGED <<i, call, outcome, thrown, written, flagAtCall, invalidAtCall, seen, nSends>>
  /\ UNCHANGED <<backlog, toMaster, toWorker, peerClosed>>
  /\ UNCHANGED <<masterVars, listenerVars, workerVars, histVars>>

Next ==
  \/ MasterListen
  \/ MasterAccept
  \/ MasterAcceptDone
  \/ MasterConfirm
  \/ MasterStart
  \/ \E msg \in Payloads, rank \in SendRanks : SendCall(msg, rank)
  \/ SendThrow
  \/ SendFrame
  \/ MasterDestroy
  \/ MasterJoinClose
  \/ \E w \in Workers : WorkerConnect(w)
  \/ \E w \in Workers : WorkerConfirmed(w)
  \/ \E w \in Workers, text \in ErrorTexts : WorkerSendErrorLength(w, text)
  \/ \E w \in Workers : WorkerSendErrorPayload(w)
  \/ \E w \in Workers : WorkerRecvMessage(w)
  \/ \E w \in Workers : WorkerDestroy(w)
  \/ ListenerEnter
  \/ ListenerPollFail
  \/ ListenerPollTimeout
  \/ ListenerPollReady
  \/ ListenerRecvError
  \/ ListenerHandle

Spec == Init /\ [][Next]_vars

\* The listener thread keeps running, ::poll does not fail forever, and a
\* worker inside sendError goes on to write the text.
Fairness ==
  /\ WF_vars(ListenerEnter)
  /\ SF_vars(ListenerPollReady)
  /\ WF_vars(ListenerRecvError)
  /\ WF_vars(ListenerHandle)
  /\ \A w \in Workers : WF_vars(WorkerSendErrorPayload(w))

\* the channel without its command traffic: setup, error reports,
\* disconnects, the listener and teardown
LiveNext ==
  \/ MasterListen
  \/ MasterAccept
  \/ MasterAcceptDone
  \/ MasterConfirm
  \/ MasterStart
  \/ MasterDestroy
  \/ MasterJoinClose
  \/ \E w \in Workers : WorkerConnect(w)
  \/ \E w \in Workers : WorkerConfirmed(w)
  \/ \E w \in Workers, text \in ErrorTexts : WorkerSendErrorLength(w, text)
  \/ \E w \in Workers : WorkerSendErrorPayload(w)
  \/ \E w \in Workers : WorkerDestroy(w)
  \/ ListenerEnter
  \/ ListenerPollFail
  \/ ListenerPollTimeout
  \/ ListenerPollReady
  \/ ListenerRecvError
  \/ ListenerHandle

LiveSpec == Init /\ [][LiveNext]_vars /\ Fairness

\* The main thread keeps running through init() and the destructor, a bounded
\* wait that finds the channel exiting returns, and a worker blocked on the
\* confirmation byte returns once the byte is there.
MainFairness ==
  /\ WF_vars(MasterAccept)
  /\ WF_vars(MasterAcceptDone)
  /\ WF_vars(MasterConfirm)
  /\ WF_vars(MasterStart)
  /\ WF_vars(MasterJoinClose)
  /\ WF_vars(ListenerPollTimeout)
  /\ \A w \in Workers : WF_vars(WorkerConfirmed(w))

FairSpec == Init /\ [][LiveNext]_vars /\ Fairness /\ MainFairness

\* ------------------------------------------------------------ properties
\* the elements of a sequence
Range(q) == {q[k] : k \in 1..Len(q)}

\* worker w's init() has returned
InitReturned(w) == wpc[w] \in {"ready", "send_payload"} \/ (wpc[w] = "destroyed" /\ _socket[w] # -1)

\* sendMessage is not in progress
Returned == mpc # "throw_error" /\ mpc # "send"

\* C1: no worker's init() has returned unless the master has accepted
\* WorldSize-1 connections and read the rank of each, and a worker waiting
\* for the confirmation byte before that has no byte to read.
Barrier ==
  \A w \in Workers :
    /\ InitReturned(w) => Len(accepted) = WorldSize - 1
    /\ (wpc[w] = "confirm" /\ Len(accepted) < WorldSize - 1) => toWorker[w] = <<>>

\* a worker's init() has returned while another worker is still waiting
BarrierWitness ==
  \E w, v \in Workers : InitReturned(w) /\ wpc[v] = "confirm" /\ toWorker[v] # <<>>

\* C2: a sendMessage call that began with the failure flag set writes no
\* byte, never reaches the write, and ends with the channel failure thrown.
Refused ==
  flagAtCall =>
    /\ written = 0
    /\ mpc # "send"
    /\ IF mpc = "throw_error" THEN outcome = "none"
       ELSE outcome \in {"runtime_error", "use_after_free"}

\* a send to rank 2 is refused after rank 1 was reported closed
RefusedWitness ==
  /\ mpc = "throw_error"
  /\ call.rank = 2
  /\ _error = <<ErrorMessage(<<1, STR_closed>>)>>
  /\ 2 \notin hungUp

\* C3: once the failure flag is set, no step unsets it.
Latch == [][_error # nullptr => _error' # nullptr]_vars

\* the flag is still set after teardown
LatchWitness == _error # nullptr /\ mpc = "destroyed"

\* C4: once a failure message is recorded, no step changes it.
SetOnce == [][_error # nullptr => _error' = _error]_vars

\* worker w has completed a sendError call and nothing else has failed: no
\* other worker has sent a byte of an error or gone away
OnlyReporter(w) ==
  /\ nErrors[w] >= 1
  /\ \A v \in Workers \ {w} : nErrors[v] = 0 /\ wpc[v] \notin {"send_payload", "destroyed"}

\* C5: when worker w reported text T and a sendMessage call failed with the
\* channel failure, its text contains "error (rank R): T" (a failure of
\* ::poll itself aside).
ReportedText ==
  \A w \in Workers :
    (OnlyReporter(w) /\ outcome = "runtime_error"
       /\ thrown # ErrorMessage(<<0, STR_poll \o STR_what>>))
    => Contains(thrown, ErrorMessage(<<_rank[w], w_error[w]>>))

\* C6: a sendMessage call with an invalid destination rank ends with the
\* InvalidRank error (std::domain_error) and writes nothing, in every state.
InvalidRankAlways ==
  (invalidAtCall /\ Returned /\ nSends > 0) => (outcome = "domain_error" /\ written = 0)

\* C6 amended: with the flag unset at the call the InvalidRank error is
\* thrown, with the flag set the channel failure is; nothing is written.
InvalidRankUnlessFailed ==
  (invalidAtCall /\ Returned /\ nSends > 0) =>
    /\ written = 0
    /\ ~flagAtCall => outcome = "domain_error"
    /\ flagAtCall => outcome \in {"runtime_error", "use_after_free"}

\* both cases of an invalid destination have happened: here the flag was set
InvalidRankWitness ==
  invalidAtCall /\ Returned /\ flagAtCall /\ outcome = "runtime_error"

\* C7: after init() returned, slot r holds the connection of the worker
\* that announced rank r, and slot 0 is empty.
Slots ==
  _started =>
    /\ _sockets[0] = -1
    /\ \A r \in WorkerRanks : _sockets[r] \in Workers /\ _rank[_sockets[r]] = r

\* init() returned after the workers connected in descending rank order
SlotsWitness ==
  /\ _started
  /\ \A k \in 1..(Len(accepted) - 1) : _rank[accepted[k]] > _rank[accepted[k + 1]]

\* worker w has not written a byte of an error frame (sendError alone writes
\* w_error, and the texts it is given are not empty)
Silent(w) == nErrors[w] = 0 /\ wpc[w] # "send_payload" /\ w_error[w] = <<>>

\* C8: when the listener runs and a worker that never sent a byte of an error
\* frame has closed its connection and the listener has not reported it yet,
\* then eventually the failure message is
\* "error (rank R): connection with worker has been closed" for that
\* worker's rank R, unless teardown begins first.
DisconnectLatched ==
  \A w \in Workers :
    (_started /\ ~_exiting /\ w \in peerClosed /\ Silent(w) /\ _rank[w] \notin hungUp)
      ~> (_exiting \/ _error = <<STR_error_rank \o to_string(_rank[w]) \o STR_sep \o STR_closed>>)

\* the closed connection of a silent worker of rank 2 has been latched while
\* the worker of rank 1 is alive
DisconnectWitness ==
  \E w, v \in Workers :
    /\ _rank[w] = 2 /\ _rank[v] = 1
    /\ w \in peerClosed /\ Silent(w) /\ v \notin peerClosed
    /\ ~_exiting
    /\ _error = <<ErrorMessage(<<2, STR_closed>>)>>

\* C9: once rank r was reported closed, its descriptor stays out of the poll
\* array, no later cycle returns a report for r or reads from its
\* connection, and the master closes the connection only in its teardown.
NoRedelivery ==
  [][\A r \in WorkerRanks :
       r \in hungUp =>
         /\ _poll_events'[r].fd = -1
         /\ ~(lpc = "poll" /\ lpc' = "errorHandler" /\ error'[1] = r)
         /\ ~(lpc = "poll" /\ lpc' = "recv_error" /\ l_rank' = r)
         /\ closeCount'[_sockets[r]] > 0 => mpc' = "destroyed"]_vars

\* after rank 1 was reported closed a later cycle delivered rank 2's report
NoRedeliveryWitness ==
  /\ 1 \in hungUp
  /\ 2 \notin hungUp
  /\ _error = <<ErrorMessage(<<2, <<111, 111, 109>>>>)>>

\* the frames of a sequence of sendMessage calls: for each, the 8 bytes of
\* the length, most significant first, then the payload
RECURSIVE Wire(_)
Wire(calls) ==
  IF calls = <<>> THEN <<>>
  ELSE EncodeBytes(Len(calls[1].msg), 8) \o calls[1].msg \o Wire(Tail(calls))

\* the bytes in flight to worker w that come after the confirmation byte
Pending(w) ==
  IF wpc[w] = "confirm" /\ toWorker[w] # <<>> THEN Tail(toWorker[w]) ELSE toWorker[w]

\* C10: what worker w's recvMessage returned is what sendMessage was given
\* for w's rank, in order, and the bytes in flight on w's connection are the
\* frames (length, then payload) of the messages sent to w's rank and not yet
\* received.
RoundTrip ==
  \A w \in Workers :
    /\ Len(received[w]) <= Len(sent[w])
    /\ \A k \in 1..Len(received[w]) : received[w][k] = sent[w][k].msg
    /\ \A k \in 1..Len(sent[w]) : sent[w][k].rank = _rank[w]
    /\ Pending(w) = Wire(SubSeq(sent[w], Len(received[w]) + 1, Len(sent[w])))

\* a worker received a non-empty message
RoundTripWitness ==
  \E w \in Workers : received[w] # <<>> /\ received[w][1] # <<>> /\ _rank[w] = 2

\* C11: once the exit signal is set on a channel whose init() returned, the
\* listener thread returns and the destructor completes.
TeardownTerminates == (_started /\ _exiting) ~> (lpc = "done" /\ mpc = "destroyed")

\* teardown completed while a worker had written only the length of a frame
TeardownWitness ==
  /\ _started /\ lpc = "done" /\ mpc = "destroyed"
  /\ \E w \in Workers : wpc[w] = "send_payload" /\ w \notin peerClosed

\* C12: the master closes no descriptor twice, the listening socket is
\* closed by init() before the listener starts, and after teardown the
\* listening socket and every connection init() accepted have been closed
\* exactly once.
ClosedExactlyOnce ==
  /\ \A d \in Descriptors : closeCount[d] <= 1
  /\ _started => closeCount[LISTEN_FD] = 1
  /\ mpc = "destroyed" =>
       /\ ~listening
       /\ \A k \in 1..Len(accepted) : closeCount[accepted[k]] = 1

\* C13: a worker channel makes no ::close call before its teardown; after
\* teardown it has closed its connection exactly once when init() opened it
\* and has closed nothing when init() was never called.
WorkerClosedOnce ==
  \A w \in Workers :
    /\ wpc[w] # "destroyed" => (w_closes[w] = 0 /\ w \notin peerClosed)
    /\ wpc[w] = "destroyed" =>
         /\ w_closes[w] = (IF _socket[w] = w THEN 1 ELSE 0)
         /\ (w \in peerClosed) = (_socket[w] = w)
         /\ (_socket[w] = -1) = (w \notin Range(accepted) /\ w \notin Range(backlog))

\* a worker whose init() returned was destroyed while the master still runs
WorkerClosedWitness ==
  \E w \in Workers :
    /\ wpc[w] = "destroyed" /\ w_closes[w] = 1 /\ w \in peerClosed
    /\ mpc = "running"

\* some accepted connection announced rank 0, a rank >= WorldSize, or a rank
\* another accepted connection announced
BadAnnounce ==
  \E w \in Range(accepted) :
    \/ _rank[w] = 0
    \/ _rank[w] >= WorldSize
    \/ \E v \in Range(accepted) \ {w} : _rank[v] = _rank[w]

\* C14: init() has returned success only if every slot 1..WorldSize-1 holds a
\* connection it accepted; when an accepted connection announced rank 0, a
\* rank >= WorldSize or a rank announced before, init() never returns success
\* and the listener is never started.
NoPartialMembership ==
  /\ (_started \/ mpc = "running" \/ lpc # "not_started") =>
       \A r \in WorkerRanks : _sockets[r] \in Range(accepted)
  /\ BadAnnounce => (~_started /\ mpc # "running" /\ lpc = "not_started")

\* init() failed after accepting every connection, two of them announcing
\* the same rank
NoPartialWitness ==
  /\ mpc = "init_failed"
  /\ Len(accepted) = WorldSize - 1
  /\ \E w, v \in Range(accepted) : w # v /\ _rank[w] = _rank[v] /\ _rank[w] \in WorkerRanks

\* every slot 1..WorldSize-1 of the table holds a connection
SlotsFilled == \A r \in WorkerRanks : _sockets[r] \in Workers

\* C15: a confirmation byte has been written to a worker, or a worker's
\* init() has returned, only when every slot 1..WorldSize-1 is filled.
ReleasedWhenAllJoined ==
  \A w \in Workers :
    ((wpc[w] = "confirm" /\ toWorker[w] # <<>>) \/ InitReturned(w)) => SlotsFilled

\* C16: only a step of the listener thread changes the failure message,
\* and no sendMessage call ends by reading a message the listener has
\* already deleted.
FlagRaceSafe ==
  [][/\ _error' # _error => (lpc = "errorHandler" /\ lpc' = "recvError")
     /\ outcome' # "use_after_free"]_vars

\* the ranks whose connection has events when ::poll looks
ReadyRanks == {q \in Ranks : Revents(_poll_events[q].fd) # 0}

\* a step leaves alone the poll descriptor of every rank but r and the bytes
\* in flight on every connection but r's
OthersUntouched(r) ==
  /\ \A q \in Ranks \ {r} : _poll_events'[q].fd = _poll_events[q].fd
  /\ \A w \in Workers : _poll_events[r].fd # w => toMaster'[w] = toMaster[w]

\* worker w's complete error frame is waiting on its open connection while a
\* connection of lower rank has events, and recvError is in ::poll
WaitingBehind(w) ==
  /\ lpc = "poll" /\ ~_exiting
  /\ w \notin peerClosed
  /\ w_error[w] # <<>> /\ toMaster[w] = Encode64(Len(w_error[w])) \o w_error[w]
  /\ _poll_events[_rank[w]].fd = w
  /\ \E q \in ReadyRanks : q < _rank[w]

ListenerLifecycle ==
  [][/\ _started' = (lpc' # "not_started")
     /\ (lpc' = "done" /\ lpc # "done") => (_exiting /\ lpc = "errorHandler")
     /\ (lpc = "errorHandler" /\ lpc' # lpc /\ _exiting) => (lpc' = "done" /\ _error' = _error)
     /\ (lpc = "errorHandler" /\ lpc' # lpc /\ ~_exiting) =>
          /\ _error' = <<STR_error_rank \o to_string(error[1]) \o STR_sep \o error[2]>>
          /\ lpc' = "recvError"
     /\ lpc = "done" => lpc' = "done"]_vars

\* a receive failure was recorded and the listener is polling again
ListenerLifecycleWitness ==
  /\ \E r \in WorkerRanks : _error = <<ErrorMessage(<<r, STR_recv \o STR_what>>)>>
  /\ lpc = "poll"
  /\ ~_exiting

\* C19: when the listener thread exists, every slot 1..WorldSize-1 is
\* filled, slot 0 is empty and the listening socket is closed; once init()
\* has returned no step changes the table, only a step of the listener
\* takes bytes off a worker connection, only sendMessage's write puts bytes
\* on one, and no step of the main thread changes the poll descriptor array.
TableFixed ==
  [][/\ lpc' # "not_started" =>
          (SlotsFilled' /\ _sockets'[0] = -1 /\ closeCount'[LISTEN_FD] = 1 /\ ~listening')
     /\ _started => _sockets' = _sockets
     /\ \A w \in Workers :
          /\ (_started /\ toMaster'[w] # toMaster[w] /\ Len(toMaster'[w]) <= Len(toMaster[w])) =>
               (lpc \in {"poll", "recv_error"} /\ lpc' # lpc)
          /\ (_started /\ toWorker'[w] # toWorker[w] /\ Len(toWorker'[w]) >= Len(toWorker[w])) =>
               (mpc = "send" /\ mpc' = "running")
     /\ mainVars' # mainVars => _poll_events' = _poll_events]_vars

\* a sendMessage call put its frame on a connection while the listener was
\* in the middle of reading an error frame
TableFixedWitness ==
  /\ _started
  /\ outcome = "sent"
  /\ lpc = "recv_error"

\* no worker has written a byte of an error frame or closed its connection
Quiet == \A w \in Workers : Silent(w) /\ w \notin peerClosed

\* the message a failure of ::poll is recorded as
PollFailure == ErrorMessage(<<0, STR_poll \o STR_what>>)

\* C20: while no worker has sent a byte of an error frame or closed its
\* connection, the only report recvError returns and the only failure
\* message recorded is that of a failure of ::poll itself; without one the
\* flag is unset and a sendMessage call to a valid rank has written its frame.
NoSpuriousFailure ==
  Quiet =>
    /\ _error \in {nullptr, <<PollFailure>>}
    /\ lpc = "errorHandler" => (error = <<0, STR_poll \o STR_what>> \/ (_exiting /\ error = <<0, <<>>>>))
    /\ lpc \notin {"recv_error"}
    /\ (_error = nullptr /\ nSends > 0 /\ Returned /\ ~invalidAtCall) => outcome = "sent"

\* with every worker quiet the listener is waiting, the flag is unset and a
\* message has been sent and received
NoSpuriousWitness ==
  /\ Quiet
  /\ lpc = "poll" /\ ~_exiting
  /\ _error = nullptr
  /\ outcome = "sent"
  /\ \E w \in Workers : received[w] # <<>>

====
